---- MODULE Spec2Model ----
(***************************************************************************)
(* Model of the OutlineVPN management API client (src/src/lib.rs).         *)
(*                                                                         *)
(* The client is a record of three fields fixed by new().  Every public    *)
(* method is one action: it builds a path and a body, hands them to        *)
(* call_api, and maps the outcome of the exchange (a transport failure or  *)
(* a response with a status and a body, both chosen by the environment)    *)
(* to a Result.  Strings are TLA+ strings, format!() is concatenation,     *)
(* response bodies are sequences of characters parsed by from_str.         *)
(***************************************************************************)
EXTENDS Integers, Sequences, FiniteSets, TLC

VARIABLES
    api_url,                 \* OutlineVPN.api_url
    session,                 \* OutlineVPN.session: the reqwest Client built by new()
    request_timeout_in_sec,  \* OutlineVPN.request_timeout_in_sec
    ctor,                    \* the arguments new() was called with
    calls,                   \* number of operation calls started
    requests,                \* number of HTTP requests handed to the transport
    op,                      \* name of the latest operation called ("new" at first)
    args,                    \* arguments of the latest operation
    sent,                    \* requests the latest operation handed to the transport
    outcome,                 \* what the transport answered to the latest operation
    result                   \* Result returned by the latest operation

vars == <<api_url, session, request_timeout_in_sec, ctor, calls, requests,
          op, args, sent, outcome, result>>

(***************************************************************************)
(* Bounds                                                                  *)
(***************************************************************************)
MaxCalls == 2

(***************************************************************************)
(* Endpoints                                                               *)
(***************************************************************************)
NAME_ENDPOINT == "/name"
SERVER_ENDPOINT == "/server"
HOSTNAME_ENDPOINT == "/server/hostname-for-access-keys"
CHANGE_PORT_ENDPOINT == "/server/port-for-new-access-keys"
KEY_DATA_LIMIT_ENDPOINT == "/server/access-key-data-limit"
METRICS_ENDPOINT == "/metrics"
ACCESS_KEYS_ENDPOINT == "/access-keys"

(***************************************************************************)
(* APIError and its Display implementation                                 *)
(***************************************************************************)
APIError == {"UnknownServerError", "InternalError", "InvalidHostname", "InvalidPort",
             "PortConflict", "InvalidDataLimit", "AccessKeyInexistent", "InvalidName",
             "InvalidRequest", "UnknownError"}

APIErrorToString(e) ==
    CASE e = "UnknownServerError" -> "An unknown server error occurred."
      [] e = "InternalError" -> "An internal error occurred."
      [] e = "InvalidHostname" -> "An invalid hostname or IP address was provided."
      [] e = "InvalidPort" -> "The requested port wasn't an integer from 1 through 65535, or the request had no port parameter."
      [] e = "PortConflict" -> "The requested port was already in use by another service."
      [] e = "InvalidDataLimit" -> "Invalid data limit."
      [] e = "AccessKeyInexistent" -> "Access key inexistent."
      [] e = "InvalidName" -> "Invalid name."
      [] e = "InvalidRequest" -> "Invalid request."
      [] e = "UnknownError" -> "An unknown error occurred."

(***************************************************************************)
(* Formatting of integers and booleans by format!("{}")                    *)
(***************************************************************************)
DigitChar == <<"0", "1", "2", "3", "4", "5", "6", "7", "8", "9">>

RECURSIVE FmtInt(_)
FmtInt(n) == IF n < 10 THEN DigitChar[n + 1]
             ELSE FmtInt(n \div 10) \o DigitChar[(n % 10) + 1]

FmtBool(b) == IF b THEN "true" ELSE "false"

(***************************************************************************)
(* serde_json::Value and serde_json::from_str, for the JSON subset of      *)
(* numbers and (nested) arrays, with insignificant spaces                  *)
(***************************************************************************)
JNone == [t |-> "none", n |-> <<>>, items |-> <<>>]
JNum(ds) == [t |-> "num", n |-> ds, items |-> <<>>]
JArr(vs) == [t |-> "arr", n |-> <<>>, items |-> vs]

Digits == {"0", "1", "2", "3", "4", "5", "6", "7", "8", "9"}

ParseFail == [ok |-> FALSE, val |-> JNone, next |-> 0]
ParseOk(v, i) == [ok |-> TRUE, val |-> v, next |-> i]

RECURSIVE SkipWs(_, _)
SkipWs(s, i) == IF i <= Len(s) /\ s[i] = " " THEN SkipWs(s, i + 1) ELSE i

RECURSIVE DigitRun(_, _)
DigitRun(s, i) == IF i <= Len(s) /\ s[i] \in Digits THEN DigitRun(s, i + 1) ELSE i

RECURSIVE ParseValue(_, _)
RECURSIVE ParseElems(_, _, _)
ParseValue(s, i0) ==
    LET i == SkipWs(s, i0) IN
    IF i > Len(s) THEN ParseFail
    ELSE IF s[i] = "0" THEN
        \* a leading zero ends the number: "01" leaves trailing characters
        ParseOk(JNum(<<"0">>), i + 1)
    ELSE IF s[i] \in Digits THEN
        LET j == DigitRun(s, i) IN ParseOk(JNum(SubSeq(s, i, j - 1)), j)
    ELSE IF s[i] = "[" THEN
        LET k == SkipWs(s, i + 1) IN
        IF k <= Len(s) /\ s[k] = "]" THEN ParseOk(JArr(<<>>), k + 1)
        ELSE ParseElems(s, k, <<>>)
    ELSE ParseFail

ParseElems(s, i, acc) ==
    LET v == ParseValue(s, i) IN
    IF ~v.ok THEN ParseFail
    ELSE LET k == SkipWs(s, v.next) IN
         IF k > Len(s) THEN ParseFail
         ELSE IF s[k] = "," THEN ParseElems(s, k + 1, Append(acc, v.val))
         ELSE IF s[k] = "]" THEN ParseOk(JArr(Append(acc, v.val)), k + 1)
         ELSE ParseFail

from_str(s) ==
    LET v == ParseValue(s, 1) IN
    IF v.ok /\ SkipWs(s, v.next) = Len(s) + 1
    THEN [ok |-> TRUE, val |-> v.val]
    ELSE [ok |-> FALSE, val |-> JNone]

(***************************************************************************)
(* Result<(), String> and Result<serde_json::Value, String>                *)
(***************************************************************************)
OkUnit == [ok |-> TRUE, unit |-> TRUE, json |-> JNone, err |-> ""]
OkJson(v) == [ok |-> TRUE, unit |-> FALSE, json |-> v, err |-> ""]
Err(msg) == [ok |-> FALSE, unit |-> FALSE, json |-> JNone, err |-> msg]
NoResult == [ok |-> FALSE, unit |-> FALSE, json |-> JNone, err |-> "<none>"]

(***************************************************************************)
(* The environment: what the transport answers to one request              *)
(***************************************************************************)
TransportFailures == {"connect", "timeout", "dns", "tls"}

Statuses == {200, 201, 204, 400, 404, 409, 500, 503}

Bodies == { <<>>,
            <<" ", "1", "0", " ">>,
            <<"[", "1", ",", " ", "[", "2", "]", ",", "[", "]", "]">>,
            <<"[", "1">>,
            <<"0", "1">> }

\* send() returned Err: there is no response
Failed(cause) == [transport |-> cause, status |-> 0, body |-> <<>>, text_ok |-> FALSE]
\* send() returned Ok(response); text_ok tells whether response.text() succeeds
Responded(st, b, t) == [transport |-> "ok", status |-> st, body |-> b, text_ok |-> t]

Outcomes == {Failed(c) : c \in TransportFailures}
            \cup {Responded(st, b, TRUE) : st \in Statuses, b \in Bodies}
            \cup {Responded(st, <<>>, FALSE) : st \in Statuses}

NoOutcome == [transport |-> "none", status |-> 0, body |-> <<>>, text_ok |-> FALSE]

(***************************************************************************)
(* Inputs of the operations and of new()                                   *)
(***************************************************************************)
\* <<cert_sha256, api_url, request_timeout>>, the timeout in seconds.
\* request_timeout is a plain Duration, not an Option: the last configuration is
\* a caller that chooses no timeout and passes the type's default value,
\* Duration::default(), which is zero.
ClientConfigs == { <<"AB12CD", "https://10.0.0.1:4321/s3cr3t", 5>>,
                   <<"ef56", "https://10.0.0.1:4321/s3cr3t", 10>>,
                   <<"AB12CD", "https://vpn.example:443/k", 10>>,
                   <<"ef56", "https://vpn.example:443/k", 0>> }
Hostnames == {"vpn.example", "10.0.0.1"}
Ports == {"8080", "0"}
Names == {"alice", "a\"b"}
ByteCounts == {0, 500000}
KeyIds == {7, 65535}

NoArgs == [id |-> -1, text |-> "", bytes |-> -1, flag |-> FALSE]

(***************************************************************************)
(* handle_json_api_error                                                   *)
(***************************************************************************)
handle_json_api_error(response) ==
    IF response.status = 200 THEN
        IF ~response.text_ok THEN Err("Error reading response body")
        ELSE LET parsed == from_str(response.body) IN
             IF ~parsed.ok THEN Err("Error deserializing JSON")
             ELSE OkJson(parsed.val)
    ELSE IF response.status = 500 THEN Err(APIErrorToString("InternalError"))
    ELSE Err(APIErrorToString("UnknownError"))

\* the status match written out in get_each_access_key_data_transferred and
\* get_whether_metrics_is_being_shared
metrics_status_match(response) ==
    IF response.status = 200 THEN
        IF ~response.text_ok THEN Err("Error reading response body")
        ELSE LET parsed == from_str(response.body) IN
             IF ~parsed.ok THEN Err("Error deserializing JSON")
             ELSE OkJson(parsed.val)
    ELSE Err(APIErrorToString("UnknownError"))

(***************************************************************************)
(* handle_response_status                                                  *)
(***************************************************************************)
BadRequestError(api_path) ==
    IF api_path = NAME_ENDPOINT THEN "InvalidName"
    ELSE IF api_path = HOSTNAME_ENDPOINT THEN "InvalidHostname"
    ELSE IF api_path = CHANGE_PORT_ENDPOINT THEN "InvalidPort"
    ELSE IF api_path = KEY_DATA_LIMIT_ENDPOINT \/ api_path = ACCESS_KEYS_ENDPOINT
         THEN "InvalidDataLimit"
    ELSE "InvalidRequest"

\* variant: CONFLICT is a port conflict on the port endpoint only
handle_response_status_conflict_by_path(response, api_path) ==
    IF response.status = 200 THEN OkUnit
    ELSE IF response.status = 204 THEN OkUnit
    ELSE IF response.status = 400 THEN Err(APIErrorToString(BadRequestError(api_path)))
    ELSE IF response.status = 409 THEN
        IF api_path = CHANGE_PORT_ENDPOINT THEN Err(APIErrorToString("PortConflict"))
        ELSE Err(APIErrorToString("UnknownError"))
    ELSE IF response.status = 404 THEN Err(APIErrorToString("AccessKeyInexistent"))
    ELSE IF response.status = 500 THEN Err(APIErrorToString("InternalError"))
    ELSE Err(APIErrorToString("UnknownError"))

\* variant: the NO_CONTENT arm is missing and CREATED is taken for a success
handle_response_status_created_for_no_content(response, api_path) ==
    IF response.status = 200 THEN OkUnit
    ELSE IF response.status = 201 THEN OkUnit
    ELSE IF response.status = 400 THEN Err(APIErrorToString(BadRequestError(api_path)))
    ELSE IF response.status = 409 THEN Err(APIErrorToString("PortConflict"))
    ELSE IF response.status = 404 THEN Err(APIErrorToString("AccessKeyInexistent"))
    ELSE IF response.status = 500 THEN Err(APIErrorToString("InternalError"))
    ELSE Err(APIErrorToString("UnknownError"))

\* variant: the NOT_FOUND arm is missing
handle_response_status_without_not_found(response, api_path) ==
    IF response.status = 200 THEN OkUnit
    ELSE IF response.status = 204 THEN OkUnit
    ELSE IF response.status = 400 THEN Err(APIErrorToString(BadRequestError(api_path)))
    ELSE IF response.status = 409 THEN Err(APIErrorToString("PortConflict"))
    ELSE IF response.status = 500 THEN Err(APIErrorToString("InternalError"))
    ELSE Err(APIErrorToString("UnknownError"))

handle_response_status(response, api_path) ==
    IF response.status = 200 THEN OkUnit
    ELSE IF response.status = 204 THEN OkUnit
    ELSE IF response.status = 400 THEN Err(APIErrorToString(BadRequestError(api_path)))
    ELSE IF response.status = 409 THEN Err(APIErrorToString("PortConflict"))
    ELSE IF response.status = 404 THEN Err(APIErrorToString("AccessKeyInexistent"))
    ELSE IF response.status = 500 THEN Err(APIErrorToString("InternalError"))
    ELSE Err(APIErrorToString("UnknownError"))

(***************************************************************************)
(* OutlineVPN::call_api: the requests it hands to the transport            *)
(***************************************************************************)
Request(api_path, request_method, request_body) ==
    [method |-> request_method,
     url |-> api_url \o api_path,
     timeout |-> request_timeout_in_sec,
     headers |-> session.default_headers
                 \cup {<<"content-type", "application/json">>},
     body |-> request_body]

\* variant: the request is sent again after the first send
call_api_send_twice(api_path, request_method, request_body) ==
    <<Request(api_path, request_method, request_body),
      Request(api_path, request_method, request_body)>>

\* variant: the content type header is not set
call_api_without_content_type(api_path, request_method, request_body) ==
    <<[Request(api_path, request_method, request_body)
         EXCEPT !.headers = session.default_headers]>>

call_api(api_path, request_method, request_body) ==
    <<Request(api_path, request_method, request_body)>>

(***************************************************************************)
(* One call of an operation: the requests go out, the transport answers o, *)
(* the operation returns res.  The client's fields are never assigned.     *)
(***************************************************************************)
Exchange(name, a, reqs, o, res) ==
    /\ calls < MaxCalls
    /\ calls' = calls + 1
    /\ requests' = requests + Len(reqs)
    /\ op' = name
    /\ args' = a
    /\ sent' = reqs
    /\ outcome' = o
    /\ result' = res
    /\ UNCHANGED <<api_url, session, request_timeout_in_sec, ctor>>

UnknownServerError == Err(APIErrorToString("UnknownServerError"))

(***************************************************************************)
(* The operations of OutlineVPN                                            *)
(***************************************************************************)
get_server_info ==
    \E o \in Outcomes :
        LET api_path == SERVER_ENDPOINT
            body == ""
        IN  Exchange("get_server_info", NoArgs,
                     call_api(api_path, "GET", body), o,
                     IF o.transport # "ok" THEN UnknownServerError
                     ELSE handle_json_api_error(o))

change_hostname_for_access_keys ==
    \E o \in Outcomes, hostname \in Hostnames :
        LET api_path == HOSTNAME_ENDPOINT
            body == "{ \"hostname\": \"" \o hostname \o "\" }"
        IN  Exchange("change_hostname_for_access_keys", [NoArgs EXCEPT !.text = hostname],
                     call_api(api_path, "PUT", body), o,
                     IF o.transport # "ok" THEN UnknownServerError
                     ELSE handle_response_status(o, HOSTNAME_ENDPOINT))

change_default_port_for_newly_created_access ==
    \E o \in Outcomes, port \in Ports :
        LET api_path == CHANGE_PORT_ENDPOINT
            body == "{ \"port\": " \o port \o " }"
        IN  Exchange("change_default_port_for_newly_created_access", [NoArgs EXCEPT !.text = port],
                     call_api(api_path, "PUT", body), o,
                     IF o.transport # "ok" THEN UnknownServerError
                     ELSE handle_response_status(o, CHANGE_PORT_ENDPOINT))

set_data_transfer_limit_for_all_access_keys ==
    \E o \in Outcomes, byte \in ByteCounts :
        LET api_path == KEY_DATA_LIMIT_ENDPOINT
            body == "{ \"limit\": { \"bytes\": " \o FmtInt(byte) \o " } }"
        IN  Exchange("set_data_transfer_limit_for_all_access_keys", [NoArgs EXCEPT !.bytes = byte],
                     call_api(api_path, "PUT", body), o,
                     IF o.transport # "ok" THEN UnknownServerError
                     ELSE handle_response_status(o, KEY_DATA_LIMIT_ENDPOINT))

remove_data_limit_for_all_access_keys ==
    \E o \in Outcomes :
        LET api_path == KEY_DATA_LIMIT_ENDPOINT
            body == ""
        IN  Exchange("remove_data_limit_for_all_access_keys", NoArgs,
                     call_api(api_path, "DELETE", body), o,
                     IF o.transport # "ok" THEN UnknownServerError
                     ELSE handle_response_status(o, KEY_DATA_LIMIT_ENDPOINT))

\* variant: a failed send is passed on to the status match
rename_server_without_transport_arm ==
    \E o \in Outcomes, name \in Names :
        LET api_path == NAME_ENDPOINT
            body == "{ \"name\": \"" \o name \o "\" }"
        IN  Exchange("rename_server", [NoArgs EXCEPT !.text = name],
                     call_api(api_path, "PUT", body), o,
                     handle_response_status(o, NAME_ENDPOINT))

rename_server ==
    \E o \in Outcomes, name \in Names :
        LET api_path == NAME_ENDPOINT
            body == "{ \"name\": \"" \o name \o "\" }"
        IN  Exchange("rename_server", [NoArgs EXCEPT !.text = name],
                     call_api(api_path, "PUT", body), o,
                     IF o.transport # "ok" THEN UnknownServerError
                     ELSE handle_response_status(o, NAME_ENDPOINT))

create_access_key ==
    \E o \in Outcomes :
        LET api_path == ACCESS_KEYS_ENDPOINT
            body == ""
        IN  Exchange("create_access_key", NoArgs,
                     call_api(api_path, "POST", body), o,
                     IF o.transport # "ok" THEN UnknownServerError
                     ELSE handle_json_api_error(o))

list_access_keys ==
    \E o \in Outcomes :
        LET api_path == ACCESS_KEYS_ENDPOINT
            body == ""
        IN  Exchange("list_access_keys", NoArgs,
                     call_api(api_path, "GET", body), o,
                     IF o.transport # "ok" THEN UnknownServerError
                     ELSE handle_json_api_error(o))

delete_access_key_by_id ==
    \E o \in Outcomes, id \in KeyIds :
        LET api_path == ACCESS_KEYS_ENDPOINT \o "/" \o FmtInt(id)
            body == ""
        IN  Exchange("delete_access_key_by_id", [NoArgs EXCEPT !.id = id],
                     call_api(api_path, "DELETE", body), o,
                     IF o.transport # "ok" THEN UnknownServerError
                     ELSE handle_response_status(o, ACCESS_KEYS_ENDPOINT))

change_name_for_access_key ==
    \E o \in Outcomes, id \in KeyIds, username \in Names :
        LET api_path == ACCESS_KEYS_ENDPOINT \o "/" \o FmtInt(id) \o "/name"
            body == "{ \"name\": \"" \o username \o "\" }"
        IN  Exchange("change_name_for_access_key", [NoArgs EXCEPT !.id = id, !.text = username],
                     call_api(api_path, "PUT", body), o,
                     IF o.transport # "ok" THEN UnknownServerError
                     ELSE handle_response_status(o, ACCESS_KEYS_ENDPOINT))

\* variant: the request goes to the path of the limit for all access keys
set_data_transfer_limit_by_id_on_global_path ==
    \E o \in Outcomes, id \in KeyIds, byte \in ByteCounts :
        LET api_path == KEY_DATA_LIMIT_ENDPOINT
            body == "{ \"limit\": { \"bytes\": " \o FmtInt(byte) \o " } }"
        IN  Exchange("set_data_transfer_limit_by_id", [NoArgs EXCEPT !.id = id, !.bytes = byte],
                     call_api(api_path, "PUT", body), o,
                     IF o.transport # "ok" THEN UnknownServerError
                     ELSE handle_response_status(o, ACCESS_KEYS_ENDPOINT))

set_data_transfer_limit_by_id ==
    \E o \in Outcomes, id \in KeyIds, byte \in ByteCounts :
        LET api_path == ACCESS_KEYS_ENDPOINT \o "/" \o FmtInt(id) \o "/data-limit"
            body == "{ \"limit\": { \"bytes\": " \o FmtInt(byte) \o " } }"
        IN  Exchange("set_data_transfer_limit_by_id", [NoArgs EXCEPT !.id = id, !.bytes = byte],
                     call_api(api_path, "PUT", body), o,
                     IF o.transport # "ok" THEN UnknownServerError
                     ELSE handle_response_status(o, ACCESS_KEYS_ENDPOINT))

del_data_transfer_limit_by_id ==
    \E o \in Outcomes, id \in KeyIds :
        LET api_path == ACCESS_KEYS_ENDPOINT \o "/" \o FmtInt(id) \o "/data-limit"
            body == ""
        IN  Exchange("del_data_transfer_limit_by_id", [NoArgs EXCEPT !.id = id],
                     call_api(api_path, "DELETE", body), o,
                     IF o.transport # "ok" THEN UnknownServerError
                     ELSE handle_response_status(o, ACCESS_KEYS_ENDPOINT))

get_each_access_key_data_transferred ==
    \E o \in Outcomes :
        LET api_path == METRICS_ENDPOINT \o "/transfer"
            body == ""
        IN  Exchange("get_each_access_key_data_transferred", NoArgs,
                     call_api(api_path, "GET", body), o,
                     IF o.transport # "ok" THEN UnknownServerError
                     ELSE metrics_status_match(o))

get_whether_metrics_is_being_shared ==
    \E o \in Outcomes :
        LET api_path == METRICS_ENDPOINT \o "/enabled"
            body == ""
        IN  Exchange("get_whether_metrics_is_being_shared", NoArgs,
                     call_api(api_path, "GET", body), o,
                     IF o.transport # "ok" THEN UnknownServerError
                     ELSE metrics_status_match(o))

enable_or_disable_sharing_metrics ==
    \E o \in Outcomes, metrics_enabled \in BOOLEAN :
        LET api_path == METRICS_ENDPOINT \o "/enabled"
            body == "{ \"metricsEnabled\": " \o FmtBool(metrics_enabled) \o " }"
        IN  Exchange("enable_or_disable_sharing_metrics", [NoArgs EXCEPT !.flag = metrics_enabled],
                     call_api(api_path, "PUT", body), o,
                     IF o.transport # "ok" THEN UnknownServerError
                     ELSE handle_response_status(o, ACCESS_KEYS_ENDPOINT))

(***************************************************************************)
(* new(): the state after construction                                     *)
(***************************************************************************)
\* variant: the timeout argument is dropped for a fixed 5 seconds
new_with_fixed_timeout(cert_sha256, url, request_timeout) ==
    /\ api_url = url
    /\ session = [danger_accept_invalid_certs |-> TRUE,
                  default_headers |-> {<<"certificate-sha256", cert_sha256>>}]
    /\ request_timeout_in_sec = 5
    /\ ctor = [cert_sha256 |-> cert_sha256, api_url |-> url,
               request_timeout |-> request_timeout]

new(cert_sha256, url, request_timeout) ==
    /\ api_url = url
    /\ session = [danger_accept_invalid_certs |-> TRUE,
                  default_headers |-> {<<"certificate-sha256", cert_sha256>>}]
    /\ request_timeout_in_sec = request_timeout
    /\ ctor = [cert_sha256 |-> cert_sha256, api_url |-> url,
               request_timeout |-> request_timeout]

Init ==
    /\ \E c \in ClientConfigs : new(c[1], c[2], c[3])
    /\ calls = 0
    /\ requests = 0
    /\ op = "new"
    /\ args = NoArgs
    /\ sent = <<>>
    /\ outcome = NoOutcome
    /\ result = NoResult

Next ==
    \/ get_server_info
    \/ change_hostname_for_access_keys
    \/ change_default_port_for_newly_created_access
    \/ set_data_transfer_limit_for_all_access_keys
    \/ remove_data_limit_for_all_access_keys
    \/ rename_server
    \/ create_access_key
    \/ list_access_keys
    \/ delete_access_key_by_id
    \/ change_name_for_access_key
    \/ set_data_transfer_limit_by_id
    \/ del_data_transfer_limit_by_id
    \/ get_each_access_key_data_transferred
    \/ get_whether_metrics_is_being_shared
    \/ enable_or_disable_sharing_metrics

Spec == Init /\ [][Next]_vars

(***************************************************************************)
(* Vocabulary of the properties                                            *)
(***************************************************************************)
\* operations returning Result<(), String>
MutationOps == {"change_hostname_for_access_keys",
                "change_default_port_for_newly_created_access",
                "set_data_transfer_limit_for_all_access_keys",
                "remove_data_limit_for_all_access_keys",
                "rename_server",
                "delete_access_key_by_id",
                "change_name_for_access_key",
                "set_data_transfer_limit_by_id",
                "del_data_transfer_limit_by_id",
                "enable_or_disable_sharing_metrics"}

\* operations returning Result<serde_json::Value, String>
JsonOps == {"get_server_info", "create_access_key", "list_access_keys",
            "get_each_access_key_data_transferred",
            "get_whether_metrics_is_being_shared"}

DataLimitOps == {"set_data_transfer_limit_for_all_access_keys",
                 "remove_data_limit_for_all_access_keys",
                 "set_data_transfer_limit_by_id",
                 "del_data_transfer_limit_by_id"}

KeyScopedOps == {"delete_access_key_by_id", "change_name_for_access_key",
                 "set_data_transfer_limit_by_id", "del_data_transfer_limit_by_id"}

Answered == outcome.transport = "ok"
TransportFailed == outcome.transport \in TransportFailures

\* the path of each operation, as the operations table documents it
OperationPath(o, a) ==
    CASE o = "get_server_info" -> "/server"
      [] o = "change_hostname_for_access_keys" -> "/server/hostname-for-access-keys"
      [] o = "change_default_port_for_newly_created_access" -> "/server/port-for-new-access-keys"
      [] o = "set_data_transfer_limit_for_all_access_keys" -> "/server/access-key-data-limit"
      [] o = "remove_data_limit_for_all_access_keys" -> "/server/access-key-data-limit"
      [] o = "rename_server" -> "/name"
      [] o = "create_access_key" -> "/access-keys"
      [] o = "list_access_keys" -> "/access-keys"
      [] o = "delete_access_key_by_id" -> "/access-keys/" \o FmtInt(a.id)
      [] o = "change_name_for_access_key" -> "/access-keys/" \o FmtInt(a.id) \o "/name"
      [] o = "set_data_transfer_limit_by_id" -> "/access-keys/" \o FmtInt(a.id) \o "/data-limit"
      [] o = "del_data_transfer_limit_by_id" -> "/access-keys/" \o FmtInt(a.id) \o "/data-limit"
      [] o = "get_each_access_key_data_transferred" -> "/metrics/transfer"
      [] o = "get_whether_metrics_is_being_shared" -> "/metrics/enabled"
      [] o = "enable_or_disable_sharing_metrics" -> "/metrics/enabled"

(***************************************************************************)
(* C1: a mutation call answered with status 400 returns the error of the   *)
(* endpoint that was called: InvalidHostname for the hostname operation,   *)
(* InvalidPort for the port operation, InvalidDataLimit for the four       *)
(* data-limit operations, InvalidName for rename_server, and               *)
(* InvalidRequest for every other mutation operation.                      *)
(***************************************************************************)
C1_ExpectedBadRequest(o) ==
    IF o = "change_hostname_for_access_keys" THEN "InvalidHostname"
    ELSE IF o = "change_default_port_for_newly_created_access" THEN "InvalidPort"
    ELSE IF o \in DataLimitOps THEN "InvalidDataLimit"
    ELSE IF o = "rename_server" THEN "InvalidName"
    ELSE "InvalidRequest"

C1_BadRequestByOperation ==
    (op \in MutationOps /\ Answered /\ outcome.status = 400)
        => result = Err(APIErrorToString(C1_ExpectedBadRequest(op)))

(***************************************************************************)
(* C2 as stated: status 409 yields PortConflict for the port-change        *)
(* operation only, and UnknownError for every other mutation operation.    *)
(***************************************************************************)
C2_ConflictOnlyOnPortEndpoint ==
    (op \in MutationOps /\ Answered /\ outcome.status = 409)
        => result = IF op = "change_default_port_for_newly_created_access"
                    THEN Err(APIErrorToString("PortConflict"))
                    ELSE Err(APIErrorToString("UnknownError"))

(***************************************************************************)
(* C2 as amended: status 409 yields PortConflict for every mutation        *)
(* operation, whichever endpoint was called.                               *)
(***************************************************************************)
C2_ConflictOnEveryMutation ==
    (op \in MutationOps /\ Answered /\ outcome.status = 409)
        => result = Err("The requested port was already in use by another service.")

C2_Witness ==
    /\ op = "rename_server"
    /\ Answered
    /\ outcome.status = 409
    /\ result = Err("The requested port was already in use by another service.")

(***************************************************************************)
(* C3: create_access_key sends POST /access-keys and, answered with status *)
(* 201 and a valid JSON body, returns Ok with the parsed JSON value.       *)
(***************************************************************************)
C3_CreatedReturnsKey ==
    op = "create_access_key"
        => /\ \A i \in 1..Len(sent) :
                  /\ sent[i].method = "POST"
                  /\ sent[i].url = api_url \o "/access-keys"
           /\ (Answered /\ outcome.status = 201 /\ outcome.text_ok
                   /\ from_str(outcome.body).ok)
                  => result = OkJson(from_str(outcome.body).val)

(***************************************************************************)
(* C4: every JSON-returning operation, once answered, returns the parsed   *)
(* body on status 200 (the body being readable JSON), InternalError on     *)
(* status 500 and UnknownError on every other status.                      *)
(***************************************************************************)
C4_JsonStatusMapping ==
    (op \in JsonOps /\ Answered)
        => /\ (outcome.status = 200 /\ outcome.text_ok /\ from_str(outcome.body).ok)
                  => result = OkJson(from_str(outcome.body).val)
           /\ outcome.status = 500
                  => result = Err(APIErrorToString("InternalError"))
           /\ outcome.status \notin {200, 500}
                  => result = Err(APIErrorToString("UnknownError"))

(***************************************************************************)
(* C5: enable_or_disable_sharing_metrics answered with status 400 returns  *)
(* the InvalidRequest error, "Invalid request.".                           *)
(***************************************************************************)
C5_MetricsBadRequest ==
    (op = "enable_or_disable_sharing_metrics" /\ Answered /\ outcome.status = 400)
        => result = Err("Invalid request.")

(***************************************************************************)
(* C6: whenever the exchange fails at the transport level, whatever the    *)
(* cause, the operation returns UnknownServerError and nothing else.       *)
(***************************************************************************)
C6_TransportFailureIsUnknownServerError ==
    TransportFailed
        => /\ op \in MutationOps \cup JsonOps
           /\ result = Err("An unknown server error occurred.")

C6_Witness ==
    /\ op = "rename_server"
    /\ outcome.transport = "timeout"
    /\ result = Err("An unknown server error occurred.")

(***************************************************************************)
(* C7: every call of an operation hands exactly one request to the         *)
(* transport, also after a failure or an error status, so the number of    *)
(* requests sent equals the number of calls started.                       *)
(***************************************************************************)
C7_OneRequestPerCall ==
    /\ requests = calls
    /\ op # "new" => Len(sent) = 1

C7_Witness ==
    /\ calls = 2
    /\ requests = 2
    /\ Len(sent) = 1
    /\ \/ TransportFailed
       \/ Answered /\ outcome.status = 500

C9_SuccessIffOkOrNoContent ==
    (op \in MutationOps /\ Answered)
        => (result = OkUnit <=> outcome.status \in {200, 204})

C9_Witness ==
    /\ calls = 2
    /\ op = "remove_data_limit_for_all_access_keys"
    /\ Answered
    /\ outcome.status = 204
    /\ outcome.body # <<>>
    /\ result = OkUnit

(***************************************************************************)
(* C10: an access-key-scoped operation (delete, rename, set limit, remove  *)
(* limit) answered with status 404 returns AccessKeyInexistent, for every  *)
(* key id.                                                                 *)
(***************************************************************************)
C10_NotFoundIsAccessKeyInexistent ==
    (op \in KeyScopedOps /\ Answered /\ outcome.status = 404)
        => result = Err("Access key inexistent.")

C10_Witness ==
    /\ op = "del_data_transfer_limit_by_id"
    /\ args.id = 65535
    /\ Answered
    /\ outcome.status = 404
    /\ result = Err("Access key inexistent.")

C12_LimitRequestCompactBody ==
    op = "set_data_transfer_limit_by_id"
        => /\ Len(sent) = 1
           /\ sent[1].method = "PUT"
           /\ sent[1].url = api_url \o "/access-keys/" \o FmtInt(args.id) \o "/data-limit"
           /\ sent[1].body = "{\"limit\":{\"bytes\":" \o FmtInt(args.bytes) \o "}}"
           /\ (args.id = 7 /\ args.bytes = 500000)
                  => /\ sent[1].url = api_url \o "/access-keys/7/data-limit"
                     /\ sent[1].body = "{\"limit\":{\"bytes\":500000}}"

(***************************************************************************)
(* C12 as amended: the request is PUT /access-keys/{id}/data-limit and its *)
(* body is the text { "limit": { "bytes": <bytes> } }, with a space after  *)
(* every brace and colon as the format string writes it; for id 7 and      *)
(* 500000 bytes: PUT /access-keys/7/data-limit with body                   *)
(* { "limit": { "bytes": 500000 } }.                                       *)
(***************************************************************************)
C12_LimitRequestSpacedBody ==
    op = "set_data_transfer_limit_by_id"
        => /\ Len(sent) = 1
           /\ sent[1].method = "PUT"
           /\ sent[1].url = api_url \o "/access-keys/" \o FmtInt(args.id) \o "/data-limit"
           /\ sent[1].body = "{ \"limit\": { \"bytes\": " \o FmtInt(args.bytes) \o " } }"
           /\ (args.id = 7 /\ args.bytes = 500000)
                  => /\ sent[1].url = api_url \o "/access-keys/7/data-limit"
                     /\ sent[1].body = "{ \"limit\": { \"bytes\": 500000 } }"

C12_Witness ==
    /\ op = "set_data_transfer_limit_by_id"
    /\ args.id = 7
    /\ args.bytes = 500000
    /\ Len(sent) = 1
    /\ sent[1].method = "PUT"
    /\ sent[1].url = "https://10.0.0.1:4321/s3cr3t/access-keys/7/data-limit"
    /\ sent[1].body = "{ \"limit\": { \"bytes\": 500000 } }"

====
